---- MODULE Spec2Model ----
(***************************************************************************)
(* Session review pages of the admin frontend: the anomaly-label editor    *)
(* (working copy against last-saved baseline, save, reset), the view       *)
(* window and the split-view segmentation.                                 *)
(*                                                                         *)
(* Three page components of the repository are modelled, selected by the   *)
(* variable `page`:                                                        *)
(*   "detail"  src/unnamed/part_001             SessionDetailPage          *)
(*   "chart"   src/src/pages/SessionChartPage.jsx  SessionChartPage        *)
(*             (the component at lines 892-1215)                           *)
(*   "legacy"  src/src/pages/SessionDetailPage.jsx SessionDetailPage       *)
(*                                                                         *)
(* JavaScript arrays are 0-based; sequences here are 1-based, so the       *)
(* sample with JavaScript index i is seq[i + 1].  null/undefined is the    *)
(* empty sequence None and a present value v is Some(v) = <<v>>.           *)
(***************************************************************************)
EXTENDS Integers, Sequences, FiniteSets, TLC

VARIABLES
    page,                 \* which page component is mounted
    session,              \* useLoaderData(): the raw session payload
    phase,                \* "mounted" before the load effect ran, then "ready"
    interactiveData,      \* useState([])  working copy
    originalData,         \* useState([])  baseline
    aliased,              \* heap shape: originalData holds the very objects of interactiveData
    isSaving,             \* useState(false)
    hasUnsavedChanges,    \* useState(false)
    saveStatus,           \* useState({state:'idle', message:''})
    isModalOpen,          \* useState(false)  save confirmation dialog
    changeSummary,        \* useState([])
    isResetModalOpen,     \* useState(false)
    confirmText,          \* ResetConfirmationModal: useState('')
    request,              \* the PATCH request in flight, with what its closure captured
    activeDomain,         \* useState(null)  view window
    splitSegments,        \* useState([])
    currentSegmentIndex,  \* useState(null)
    isExporting,          \* useState(false)  detail and volunteer page
    downloads,            \* the files handed to downloadCSV, oldest first
    exportAlert,          \* the alert() raised by the last export request
    samples,              \* the rows handed to the export serializer
    selectedSessions,     \* volunteer page: useState(new Set()), in insertion order
    fetches               \* volunteer page: the session fetches of the export in flight

vars == <<page, session, phase, interactiveData, originalData, aliased, isSaving,
          hasUnsavedChanges, saveStatus, isModalOpen, changeSummary,
          isResetModalOpen, confirmText, request, activeDomain, splitSegments,
          currentSegmentIndex,
          isExporting, downloads, exportAlert, samples, selectedSessions, fetches>>

editVars == <<interactiveData, originalData, aliased, isSaving, hasUnsavedChanges,
              saveStatus, isModalOpen, changeSummary, isResetModalOpen,
              confirmText, request>>

windowVars == <<activeDomain, splitSegments, currentSegmentIndex>>

exportVars == <<isExporting, downloads, exportAlert, samples, selectedSessions, fetches>>

(***************************************************************************)
(* Bounds of the model.                                                    *)
(***************************************************************************)
MaxLen == 2          \* longest session whose every sample can be toggled
ScenarioIndex == 7   \* the sample index of the save/fail scenario
MaxSplitValue == 3   \* largest split parameter tried on the pages
MaxSegLen == 4       \* longest sequence of the segmentation runs
MaxRawLabel == 2     \* largest raw label value of the normalization runs
MaxGap == 2          \* largest step between two consecutive timestamps
MaxDownloads == 1    \* files delivered before the export buttons are left alone
MaxSessions == 2     \* sessions listed on the volunteer page
MaxCells == 2        \* rows of a serialized table, and pieces of one cell

(***************************************************************************)
(* null / undefined.                                                       *)
(***************************************************************************)
None == <<>>
Some(v) == <<v>>
IsSome(o) == o # <<>>
Val(o) == o[1]

Min(S) == CHOOSE x \in S : \A y \in S : x <= y
Max(S) == CHOOSE x \in S : \A y \in S : x >= y

Pages == {"detail", "chart", "legacy"}

\* Toggling writes into the existing record object (chart, legacy) instead of
\* building a new one (detail).
InPlace(p) == p \in {"chart", "legacy"}

\* Array.prototype.findIndex over a 1-based sequence, answering 0-based.
FindIndex(seq, P(_)) ==
    LET hits == {i \in 1..Len(seq) : P(seq[i])}
    IN  IF hits = {} THEN -1 ELSE Min(hits) - 1

\* A row of session.timeseries_data.  anomaly_key is the spelling of the key
\* under which the row carries its label ("" when it carries none) and
\* anomaly the value stored under it.
RawRowKeyed(t, hr, key, a) ==
    [timestamp |-> t, heart_rate |-> hr, anomaly_key |-> key, anomaly |-> a]

RawRow(t, hr, a) == RawRowKeyed(t, hr, "anomaly", a)

\* key.toLowerCase() on the spellings of the label key.
LowerCaseKey(key) == IF key = "Anomaly" THEN "anomaly" ELSE key

\* row.anomaly: the property read under its lowercase name, None when the
\* row has no property of exactly that name.
RowAnomaly(row) == IF row.anomaly_key = "anomaly" THEN Some(row.anomaly) ELSE None

\* newRow.anomaly after the copy loop: the label under its lowercased key,
\* None when the row carries none.
CopiedAnomaly(row) ==
    IF LowerCaseKey(row.anomaly_key) = "anomaly" THEN Some(row.anomaly) ELSE None

\* Number(a) === 1 ? 1 : 0 for a number or undefined
NormalizeAnomaly(a) == IF IsSome(a) /\ Val(a) = 1 THEN 1 ELSE 0

\* normalizedTimeseriesData.  Every page copies each property under its
\* lowercased key; detail and chart then add originalIndex and overwrite
\* anomaly with the coercion of row.anomaly.  The legacy page is only given
\* rows that carry a label.
NormalizedTimeseriesData(p, s) ==
    IF ~IsSome(s.timeseries_data) THEN <<>>
    ELSE LET rows == Val(s.timeseries_data)
         IN  [k \in 1..Len(rows) |->
                IF p = "legacy"
                THEN [timestamp |-> rows[k].timestamp,
                      heart_rate |-> rows[k].heart_rate,
                      anomaly |-> Val(CopiedAnomaly(rows[k])),
                      originalIndex |-> None]
                ELSE [timestamp |-> rows[k].timestamp,
                      heart_rate |-> rows[k].heart_rate,
                      anomaly |-> NormalizeAnomaly(RowAnomaly(rows[k])),
                      originalIndex |-> Some(k - 1)]]

\* JSON.parse(JSON.stringify(data)): a structurally equal array of new
\* objects.  Values carry no identity here; what the copy changes is the
\* heap shape, recorded by `aliased` where the copy is taken.
DeepCopy(data) == [k \in 1..Len(data) |-> data[k]]

\* chartData: the working copy with elapsed_time = (t - t0) / 1000.
ChartData(data) ==
    [k \in 1..Len(data) |->
        [timestamp |-> data[k].timestamp,
         heart_rate |-> data[k].heart_rate,
         anomaly |-> data[k].anomaly,
         originalIndex |-> data[k].originalIndex,
         elapsed_time |-> data[k].timestamp - data[1].timestamp]]

FlipAnomaly(rec) == [rec EXCEPT !.anomaly = IF rec.anomaly = 1 THEN 0 ELSE 1]

\* The array handleAnomalyToggle stores, for an index that is not null.
ToggledData(p, data, index) ==
    IF p = "detail"
    THEN [k \in 1..Len(data) |->
            IF data[k].originalIndex = Some(index) THEN FlipAnomaly(data[k])
            ELSE data[k]]
    ELSE IF p = "chart"
    THEN LET at == FindIndex(data, LAMBDA d : d.originalIndex = Some(index))
         IN  IF at = -1 THEN data
             ELSE [data EXCEPT ![at + 1] = FlipAnomaly(data[at + 1])]
    ELSE IF index >= 0 /\ index < Len(data)
         THEN [data EXCEPT ![index + 1] = FlipAnomaly(data[index + 1])]
         ELSE data

\* Whether handleAnomalyToggle finds a record to change (`if (record)`).
ToggleFindsRecord(p, data, index) ==
    IF p = "chart"
    THEN FindIndex(data, LAMBDA d : d.originalIndex = Some(index)) # -1
    ELSE index >= 0 /\ index < Len(data)

\* The reduce of initiateSaveChanges / handleSaveChanges, up to position k.
RECURSIVE ComputeDiffUpTo(_, _, _)
ComputeDiffUpTo(cur, orig, k) ==
    IF k = 0 THEN <<>>
    ELSE LET acc == ComputeDiffUpTo(cur, orig, k - 1)
         IN  IF k <= Len(orig) /\ cur[k].anomaly # orig[k].anomaly
             THEN Append(acc, [timestamp |-> cur[k].timestamp,
                               from |-> orig[k].anomaly,
                               to |-> cur[k].anomaly])
             ELSE acc

ComputeDiff(cur, orig) == ComputeDiffUpTo(cur, orig, Len(cur))

PayloadOfFrom(updates) ==
    [k \in 1..Len(updates) |->
        [timestamp |-> updates[k].timestamp, anomaly |-> updates[k].from]]

\* updatesToSave.map(u => ({timestamp: u.timestamp, anomaly: u.to}))
PayloadOf(updates) ==
    [k \in 1..Len(updates) |->
        [timestamp |-> updates[k].timestamp, anomaly |-> updates[k].to]]

\* The reset map renumbering the records from 1.
ResetRenumbers(data) ==
    [k \in 1..Len(data) |-> [data[k] EXCEPT !.anomaly = 0, !.originalIndex = Some(k)]]

\* The index a record is addressed by: the originalIndex the normalizer
\* stored on detail and chart, the position filteredData adds on legacy.
OriginalIndexes(p, data) ==
    [k \in 1..Len(data) |->
        IF p = "legacy" THEN Some(k - 1) ELSE data[k].originalIndex]

\* interactiveData.map(record => ({...record, anomaly: 0}))
ResetData(data) == [k \in 1..Len(data) |-> [data[k] EXCEPT !.anomaly = 0]]

\* confirmText.toUpperCase() on the texts the model types.
ToUpperCase(t) == IF t = "reset" THEN "RESET" ELSE t

IdleStatus == [state |-> "idle", message |-> ""]

\* The modal dialogs cover the page (fixed inset-0 z-50): while one is open
\* the controls of the page under it cannot be clicked.
NoOverlay == ~isModalOpen /\ ~isResetModalOpen

Ready == phase = "ready"

\* hasTimeseries: the charts and their controls are rendered only with it.
HasTimeseries == Len(interactiveData) > 0

\* What the `interactiveData` captured by the save closure reads as when the
\* response arrives.  The captured array is never written, but on the pages
\* that toggle in place its elements are the live record objects.
ClosureInteractiveData ==
    IF InPlace(page) THEN interactiveData ELSE Val(request).closureData

(***************************************************************************)
(* Sessions.                                                               *)
(***************************************************************************)
RECURSIVE SeqsOver(_, _)
SeqsOver(S, n) ==
    IF n = 0 THEN {<<>>}
    ELSE {Append(q, x) : q \in SeqsOver(S, n - 1), x \in S}

\* Rows with the given timestamp steps, heart-rate presence and raw labels.
RowsOf(gaps, hrs, anoms) ==
    LET n == Len(hrs)
        RECURSIVE T(_)
        T(k) == IF k = 1 THEN 0 ELSE T(k - 1) + gaps[k - 1]
    IN  [k \in 1..n |->
            RawRow(T(k), IF hrs[k] THEN Some(60 + k) ELSE None, anoms[k])]

SessionOf(rows) == [timeseries_data |-> Some(rows)]
MissingSession == [timeseries_data |-> None]

\* Sessions of the editing runs: 0..MaxLen samples one second apart, raw
\* labels 0 except possibly the first, heart rate present except possibly at
\* the last sample; one
\* session without timeseries_data; and the scenario session.
EditSessions ==
    {MissingSession}
    \cup {SessionOf(RowsOf([k \in 1..n |-> 1],
                           [k \in 1..n |-> k < n \/ hrLast],
                           [k \in 1..n |-> IF k = 1 THEN first ELSE 0])) :
            n \in 0..MaxLen, hrLast \in BOOLEAN, first \in {0, 1}}
    \cup {SessionOf(RowsOf([k \in 1..ScenarioIndex + 1 |-> 1],
                           [k \in 1..ScenarioIndex + 1 |-> TRUE],
                           [k \in 1..ScenarioIndex + 1 |-> 0]))}

\* The samples a click can reach in the editing runs: every sample of a
\* short session, and the first and the scenario sample of the long one.
ClickIndexes(n) == {i \in 0..n - 1 : i < MaxLen \/ i = ScenarioIndex} \cup {n}

(***************************************************************************)
(* Construction and load.                                                  *)
(***************************************************************************)
InitState ==
    /\ phase = "mounted"
    /\ interactiveData = <<>>
    /\ originalData = <<>>
    /\ aliased = FALSE
    /\ isSaving = FALSE
    /\ hasUnsavedChanges = FALSE
    /\ saveStatus = IdleStatus
    /\ isModalOpen = FALSE
    /\ changeSummary = <<>>
    /\ isResetModalOpen = FALSE
    /\ confirmText = ""
    /\ request = None
    /\ activeDomain = None
    /\ splitSegments = <<>>
    /\ currentSegmentIndex = None
    /\ isExporting = FALSE
    /\ downloads = <<>>
    /\ exportAlert = None
    /\ selectedSessions = <<>>
    /\ fetches = <<>>

InitPage(pages, sessions) ==
    /\ page \in pages
    /\ session \in sessions
    /\ samples = <<>>
    /\ InitState

\* useEffect(..., [normalizedTimeseriesData])
LoadEffect ==
    /\ phase = "mounted"
    /\ phase' = "ready"
    /\ LET data == NormalizedTimeseriesData(page, session)
       IN  IF page = "legacy"
           THEN /\ interactiveData' = DeepCopy(data)
                /\ originalData' = interactiveData'
                /\ aliased' = TRUE
                /\ hasUnsavedChanges' = FALSE
                /\ UNCHANGED activeDomain
           ELSE IF Len(data) > 0
           THEN /\ interactiveData' = DeepCopy(data)
                /\ originalData' = DeepCopy(data)
                /\ aliased' = FALSE
                /\ activeDomain' = Some([startIndex |-> 0, endIndex |-> Len(data) - 1])
                /\ hasUnsavedChanges' = FALSE
           ELSE UNCHANGED <<interactiveData, originalData, aliased, activeDomain,
                            hasUnsavedChanges>>
    /\ UNCHANGED <<exportVars, page, session, isSaving, saveStatus, isModalOpen, changeSummary,
                   isResetModalOpen, confirmText, request, splitSegments,
                   currentSegmentIndex>>

(***************************************************************************)
(* Editing.                                                                *)
(***************************************************************************)
\* The working copy and the baseline as they read once handleAnomalyToggle
\* has run with an index that is not null: a write into a record object that
\* both arrays hold shows in both.
ToggleResult(p, data, orig, shared, index) ==
    IF InPlace(p) /\ ~ToggleFindsRecord(p, data, index)
    THEN [interactiveData |-> data, originalData |-> orig]
    ELSE LET newData == ToggledData(p, data, index)
         IN  [interactiveData |-> newData,
              originalData |-> IF InPlace(p) /\ shared THEN newData ELSE orig]

\* handleAnomalyToggle(originalIndex); `index` is None for null.
HandleAnomalyToggle(index) ==
    /\ Ready /\ NoOverlay
    /\ IF ~IsSome(index) THEN UNCHANGED <<interactiveData, originalData, hasUnsavedChanges>>
       ELSE LET r == ToggleResult(page, interactiveData, originalData, aliased, Val(index))
            IN  /\ interactiveData' = r.interactiveData
                /\ originalData' = r.originalData
                /\ hasUnsavedChanges' =
                     IF InPlace(page) /\ ~ToggleFindsRecord(page, interactiveData, Val(index))
                     THEN hasUnsavedChanges ELSE TRUE
    /\ UNCHANGED <<exportVars, page, session, phase, aliased, isSaving, saveStatus, isModalOpen,
                   changeSummary, isResetModalOpen, confirmText, request>>
    /\ UNCHANGED windowVars

\* HeartRateChart handleChartClick with e.activeTooltipIndex = clickedIndex
\* (None for null): only a sample with a heart rate is toggled.  detail and
\* chart pass the sample's originalIndex, legacy the clicked index.
HandleChartClick(clickedIndex) ==
    /\ Ready /\ NoOverlay /\ HasTimeseries
    /\ IF /\ IsSome(clickedIndex)
          /\ Val(clickedIndex) < Len(interactiveData)
          /\ IsSome(interactiveData[Val(clickedIndex) + 1].heart_rate)
       THEN HandleAnomalyToggle(IF page = "legacy" THEN clickedIndex
                                ELSE interactiveData[Val(clickedIndex) + 1].originalIndex)
       ELSE UNCHANGED vars

\* The anomaly button of a row of the Raw Data Table (detail, legacy):
\* handleAnomalyToggle(row.originalIndex), whatever the row's heart rate.
HandleRowClick(rowIndex) ==
    /\ page \in {"detail", "legacy"}
    /\ rowIndex < Len(interactiveData)
    /\ HandleAnomalyToggle(Some(rowIndex))

\* The Save Changes buttons are rendered only with hasUnsavedChanges and are
\* disabled while isSaving.
SaveButtonEnabled == Ready /\ NoOverlay /\ hasUnsavedChanges /\ ~isSaving

NoChangesStatus == [state |-> "error", message |-> "No changes detected to save."]

\* detail: initiateSaveChanges
InitiateSaveChanges ==
    /\ page = "detail"
    /\ SaveButtonEnabled
    /\ LET updates == ComputeDiff(interactiveData, originalData)
       IN  IF Len(updates) = 0
           THEN /\ saveStatus' = NoChangesStatus
                /\ UNCHANGED <<changeSummary, isModalOpen>>
           ELSE /\ changeSummary' = updates
                /\ isModalOpen' = TRUE
                /\ UNCHANGED saveStatus
    /\ UNCHANGED <<exportVars, page, session, phase, interactiveData, originalData, aliased,
                   isSaving, hasUnsavedChanges, isResetModalOpen, confirmText, request>>
    /\ UNCHANGED windowVars

\* detail: ConfirmationModal onClose
CancelSaveModal ==
    /\ page = "detail"
    /\ isModalOpen
    /\ isModalOpen' = FALSE
    /\ UNCHANGED <<exportVars, page, session, phase, interactiveData, originalData, aliased,
                   isSaving, hasUnsavedChanges, saveStatus, changeSummary,
                   isResetModalOpen, confirmText, request>>
    /\ UNCHANGED windowVars

\* detail: confirmSaveChanges(changeSummary), up to the await of fetch
ConfirmSaveChanges ==
    /\ page = "detail"
    /\ isModalOpen
    /\ isModalOpen' = FALSE
    /\ isSaving' = TRUE
    /\ saveStatus' = IdleStatus
    /\ request' = Some([updates |-> PayloadOf(changeSummary),
                        closureData |-> interactiveData])
    /\ UNCHANGED <<exportVars, page, session, phase, interactiveData, originalData, aliased,
                   hasUnsavedChanges, changeSummary, isResetModalOpen, confirmText>>
    /\ UNCHANGED windowVars

\* chart, legacy: handleSaveChanges, up to the await of fetch.  The legacy
\* page reports through alert() and keeps no saveStatus.
HandleSaveChanges ==
    /\ page \in {"chart", "legacy"}
    /\ SaveButtonEnabled
    /\ LET updates == PayloadOf(ComputeDiff(interactiveData, originalData))
       IN  IF Len(updates) = 0
           THEN /\ saveStatus' = IF page = "chart" THEN NoChangesStatus ELSE saveStatus
                /\ UNCHANGED <<isSaving, request>>
           ELSE /\ saveStatus' = IF page = "chart" THEN IdleStatus ELSE saveStatus
                /\ isSaving' = TRUE
                /\ request' = Some([updates |-> updates,
                                    closureData |-> interactiveData])
    /\ UNCHANGED <<exportVars, page, session, phase, interactiveData, originalData, aliased,
                   hasUnsavedChanges, isModalOpen, changeSummary, isResetModalOpen,
                   confirmText>>
    /\ UNCHANGED windowVars

CommitAlways(ok) == DeepCopy(ClosureInteractiveData)

CommitNever(ok) == originalData

\* The baseline after the try block of the save: replaced by a deep copy of
\* the closure's interactiveData when the response is ok.
BaselineAfterResponse(ok) ==
    IF ok THEN DeepCopy(ClosureInteractiveData) ELSE originalData

\* hasUnsavedChanges after the try block of the save.
UnsavedAfterResponse(ok) == IF ok THEN FALSE ELSE hasUnsavedChanges

\* SaveSettles without the finally block on the failure paths.
SettleKeepsSaving(outcome) ==
    /\ IsSome(request)
    /\ request' = None
    /\ isSaving' = (outcome # "ok")
    /\ originalData' = BaselineAfterResponse(outcome = "ok")
    /\ aliased' = IF outcome = "ok" THEN FALSE ELSE aliased
    /\ hasUnsavedChanges' = UnsavedAfterResponse(outcome = "ok")
    /\ saveStatus' =
         IF outcome = "ok"
         THEN [state |-> "success", message |-> "Changes saved successfully!"]
         ELSE [state |-> "error", message |-> "Failed to save changes."]
    /\ UNCHANGED <<exportVars, page, session, phase, interactiveData, isModalOpen, changeSummary,
                   isResetModalOpen, confirmText>>
    /\ UNCHANGED windowVars

\* The rest of confirmSaveChanges / handleSaveChanges once fetch settles:
\* response.ok ("ok"), a non-OK response ("rejected") or a thrown fetch
\* ("transport").
SaveSettles(outcome) ==
    /\ IsSome(request)
    /\ request' = None
    /\ isSaving' = FALSE
    /\ originalData' = BaselineAfterResponse(outcome = "ok")
    /\ aliased' = IF outcome = "ok" THEN FALSE ELSE aliased
    /\ hasUnsavedChanges' = UnsavedAfterResponse(outcome = "ok")
    /\ saveStatus' =
         IF page = "legacy" THEN saveStatus
         ELSE IF outcome = "ok"
         THEN [state |-> "success", message |-> "Changes saved successfully!"]
         ELSE IF outcome = "rejected"
         THEN [state |-> "error", message |-> "Failed to save changes."]
         ELSE [state |-> "error", message |-> "Failed to fetch"]
    /\ UNCHANGED <<exportVars, page, session, phase, interactiveData, isModalOpen, changeSummary,
                   isResetModalOpen, confirmText>>
    /\ UNCHANGED windowVars

SaveOutcomes == {"ok", "rejected", "transport"}

\* useEffect on saveStatus: back to idle after three seconds.
SaveStatusTimeout ==
    /\ saveStatus.state # "idle"
    /\ saveStatus' = IdleStatus
    /\ UNCHANGED <<exportVars, page, session, phase, interactiveData, originalData, aliased,
                   isSaving, hasUnsavedChanges, isModalOpen, changeSummary,
                   isResetModalOpen, confirmText, request>>
    /\ UNCHANGED windowVars

\* hasAnomalies
HasAnomalies == \E k \in 1..Len(interactiveData) : interactiveData[k].anomaly = 1

\* handleOpenResetModal behind a Reset All button that is never disabled.
OpenResetWhileSaving ==
    /\ page = "detail"
    /\ Ready /\ NoOverlay /\ HasAnomalies
    /\ isResetModalOpen' = TRUE
    /\ UNCHANGED <<exportVars, page, session, phase, interactiveData, originalData, aliased,
                   isSaving, hasUnsavedChanges, saveStatus, isModalOpen,
                   changeSummary, confirmText, request>>
    /\ UNCHANGED windowVars

\* detail: handleOpenResetModal; the Reset All button is rendered with
\* hasAnomalies and disabled while isSaving.
HandleOpenResetModal ==
    /\ page = "detail"
    /\ Ready /\ NoOverlay /\ HasAnomalies /\ ~isSaving
    /\ isResetModalOpen' = TRUE
    /\ UNCHANGED <<exportVars, page, session, phase, interactiveData, originalData, aliased,
                   isSaving, hasUnsavedChanges, saveStatus, isModalOpen,
                   changeSummary, confirmText, request>>
    /\ UNCHANGED windowVars

\* ResetConfirmationModal: the text input's onChange
TypeConfirmText(t) ==
    /\ isResetModalOpen
    /\ confirmText' = t
    /\ UNCHANGED <<exportVars, page, session, phase, interactiveData, originalData, aliased,
                   isSaving, hasUnsavedChanges, saveStatus, isModalOpen,
                   changeSummary, isResetModalOpen, request>>
    /\ UNCHANGED windowVars

\* ResetConfirmationModal: Cancel
CancelResetModal ==
    /\ isResetModalOpen
    /\ isResetModalOpen' = FALSE
    /\ UNCHANGED <<exportVars, page, session, phase, interactiveData, originalData, aliased,
                   isSaving, hasUnsavedChanges, saveStatus, isModalOpen,
                   changeSummary, confirmText, request>>
    /\ UNCHANGED windowVars

AlwaysConfirmed == TRUE

\* ResetConfirmationModal: isConfirmed
IsConfirmed == ToUpperCase(confirmText) = "RESET"

\* detail: handleConfirmReset, behind the Confirm Reset button
HandleConfirmReset ==
    /\ isResetModalOpen
    /\ IsConfirmed
    /\ interactiveData' = ResetData(interactiveData)
    /\ hasUnsavedChanges' = TRUE
    /\ isResetModalOpen' = FALSE
    /\ UNCHANGED <<exportVars, page, session, phase, originalData, aliased, isSaving, saveStatus,
                   isModalOpen, changeSummary, confirmText, request>>
    /\ UNCHANGED windowVars

ConfirmTexts == {"", "reset"}

(***************************************************************************)
(* View window.                                                            *)
(***************************************************************************)
Domain(a, b) == [startIndex |-> a, endIndex |-> b]

\* The Brush's onChange: handleBrushChange (detail), handleDomainChange
\* (chart), setActiveDomain itself (legacy).  The Brush exists only inside
\* the chart, which is rendered with hasTimeseries.
HandleBrushChange(newDomain) ==
    /\ Ready /\ NoOverlay /\ HasTimeseries
    /\ activeDomain' = IF page = "legacy" \/ IsSome(newDomain)
                       THEN newDomain ELSE activeDomain
    /\ UNCHANGED <<exportVars, page, session, phase, splitSegments, currentSegmentIndex>>
    /\ UNCHANGED editVars

\* handleProgrammaticDomainChange(newDomain, fromSplit): the three state
\* variables after the call, given the segmentation the caller has set.
ProgrammaticDomainChange(newDomain, fromSplit, segs, idx) ==
    /\ splitSegments' = IF fromSplit THEN segs ELSE <<>>
    /\ currentSegmentIndex' = IF fromSplit THEN idx ELSE None
    /\ activeDomain' = IF page = "chart" /\ ~IsSome(newDomain)
                       THEN activeDomain ELSE newDomain

\* Legacy ChartControls: parseTimeToSeconds(timeStr).  A text is the
\* sequence of its parts between colons, each the number Number() reads from
\* it, None for NaN.
ParseTimeToSeconds(parts) ==
    IF (\E k \in 1..Len(parts) : ~IsSome(parts[k])) \/ Len(parts) = 0 \/ Len(parts) > 3
    THEN None
    ELSE IF Len(parts) = 3
    THEN Some(Val(parts[1]) * 3600 + Val(parts[2]) * 60 + Val(parts[3]))
    ELSE IF Len(parts) = 2
    THEN Some(Val(parts[1]) * 60 + Val(parts[2]))
    ELSE Some(Val(parts[1]))

\* d.elapsed_time of the records ChartControls is given: chartData on detail
\* and chart; on legacy interactiveData itself, whose records have no
\* elapsed_time, so the property reads undefined.
ControlsElapsed(p, data) ==
    [k \in 1..Len(data) |->
        IF p = "legacy" THEN None ELSE Some(ChartData(data)[k].elapsed_time)]

\* handleApplyTime: the alert it raises, None when it raises none.
ApplyTimeAlert(p, startSeconds, endSeconds) ==
    IF ~IsSome(startSeconds) \/ ~IsSome(endSeconds)
         \/ Val(startSeconds) >= Val(endSeconds)
    THEN Some(IF p = "legacy"
              THEN "Invalid time format or range. Please use HH:MM:SS, MM:SS, or SS."
              ELSE "Invalid time range.")
    ELSE None

\* handleApplyTime: the window it hands to onProgrammaticDomainChange, None
\* when it returns without the call.  undefined >= n is false.
ApplyTimeWindow(p, data, startSeconds, endSeconds) ==
    IF IsSome(ApplyTimeAlert(p, startSeconds, endSeconds)) THEN None
    ELSE LET elapsed == ControlsElapsed(p, data)
             startIndex == FindIndex(elapsed, LAMBDA t : IsSome(t) /\ Val(t) >= Val(startSeconds))
             found == FindIndex(elapsed, LAMBDA t : IsSome(t) /\ Val(t) >= Val(endSeconds))
             endIndex == IF found = -1 THEN Len(data) - 1 ELSE found
         IN  IF startIndex > -1 THEN Some(Domain(startIndex, endIndex)) ELSE None

\* ChartControls handleApplyTime of detail and chart, with the seconds the
\* two TimeInputs hold.
HandleApplyTime(startSeconds, endSeconds) ==
    /\ page \in {"detail", "chart"}
    /\ Ready /\ NoOverlay
    /\ LET window == ApplyTimeWindow(page, interactiveData,
                                     Some(startSeconds), Some(endSeconds))
       IN  IF ~IsSome(window)
           THEN UNCHANGED windowVars
           ELSE ProgrammaticDomainChange(window, FALSE, splitSegments, currentSegmentIndex)
    /\ UNCHANGED <<exportVars, page, session, phase>>
    /\ UNCHANGED editVars

\* ChartControls handleApplyTime of the legacy page, with the texts of the
\* two fields; onProgrammaticDomainChange stores the window.
HandleApplyTimeText(startTime, endTime) ==
    /\ page = "legacy"
    /\ Ready /\ NoOverlay /\ HasTimeseries
    /\ LET window == ApplyTimeWindow(page, interactiveData,
                                     ParseTimeToSeconds(startTime),
                                     ParseTimeToSeconds(endTime))
       IN  /\ activeDomain' = IF IsSome(window) THEN window ELSE activeDomain
           /\ UNCHANGED <<splitSegments, currentSegmentIndex>>
    /\ UNCHANGED <<exportVars, page, session, phase>>
    /\ UNCHANGED editVars

WindowSize == 10

\* AnomalyTimeline manualSegments: the maximal runs of anomaly === 1.
ManualSegments(data) ==
    {r \in [start : 0..Len(data) - 1, end : 0..Len(data) - 1] :
        /\ r.start <= r.end
        /\ \A k \in r.start + 1..r.end + 1 : data[k].anomaly = 1
        /\ (r.start = 0 \/ data[r.start].anomaly # 1)
        /\ (r.end = Len(data) - 1 \/ data[r.end + 2].anomaly # 1)}

AllPoints(data) == [k \in 1..Len(data) |-> k - 1]

\* hrPoints: chartData.map(originalArrayIndex: index).filter(heart_rate !=
\* null), kept as the 0-based indexes in order.
HrPoints(data) ==
    SelectSeq([k \in 1..Len(data) |-> k - 1],
              LAMBDA i : IsSome(data[i + 1].heart_rate))

\* handleTimelineZoom(segment): the window it asks for.
TimelineZoomDomain(data, segment) ==
    LET hrPoints == HrPoints(data)
        hrPointsLength == Len(hrPoints)
        middleOriginalIndex == (segment.start + segment.end) \div 2
        found == FindIndex(hrPoints, LAMBDA x : x >= middleOriginalIndex)
        middleHrIndex == IF found = -1 THEN hrPointsLength - 1 ELSE found
        s0 == middleHrIndex - (WindowSize \div 2)
        e0 == s0 + WindowSize - 1
        e1 == IF e0 >= hrPointsLength THEN hrPointsLength - 1 ELSE e0
        s1 == IF e0 >= hrPointsLength THEN Max({0, e1 - WindowSize + 1}) ELSE s0
        s2 == IF s1 < 0 THEN 0 ELSE s1
        e2 == IF s1 < 0 THEN Min({WindowSize - 1, hrPointsLength - 1}) ELSE e1
    IN  Domain(hrPoints[s2 + 1], hrPoints[e2 + 1])

HandleTimelineZoom(segment) ==
    /\ page \in {"detail", "chart"}
    /\ Ready /\ NoOverlay
    /\ IF ~HasTimeseries \/ Len(HrPoints(interactiveData)) = 0
       THEN UNCHANGED windowVars
       ELSE ProgrammaticDomainChange(Some(TimelineZoomDomain(interactiveData, segment)),
                                     FALSE, splitSegments, currentSegmentIndex)
    /\ UNCHANGED <<exportVars, page, session, phase>>
    /\ UNCHANGED editVars

ClearSplitKeepsWindow ==
    /\ Ready /\ NoOverlay
    /\ splitSegments' = <<>>
    /\ currentSegmentIndex' = None
    /\ UNCHANGED <<exportVars, activeDomain, page, session, phase>>
    /\ UNCHANGED editVars

\* handleClearSplit, and handleResetZoom which calls it (detail, chart);
\* handleResetZoom of the legacy page.
\* HandleClearSplit without its test for an empty sequence.
ClearSplitToFullRange ==
    /\ Ready /\ NoOverlay
    /\ ProgrammaticDomainChange(Some(Domain(0, Len(interactiveData) - 1)), FALSE, <<>>, None)
    /\ UNCHANGED <<exportVars, page, session, phase>>
    /\ UNCHANGED editVars

HandleClearSplit ==
    /\ Ready /\ NoOverlay
    /\ IF page = "legacy"
       THEN /\ activeDomain' = None
            /\ UNCHANGED <<splitSegments, currentSegmentIndex>>
       ELSE IF HasTimeseries
       THEN ProgrammaticDomainChange(Some(Domain(0, Len(interactiveData) - 1)), FALSE,
                                     <<>>, None)
       ELSE /\ splitSegments' = <<>>
            /\ currentSegmentIndex' = None
            /\ activeDomain' = None
    /\ UNCHANGED <<exportVars, page, session, phase>>
    /\ UNCHANGED editVars

\* chartData[i]?.elapsed_time: undefined outside the array.
ElapsedAt(chartData, i) ==
    IF 0 <= i /\ i < Len(chartData) THEN Some(chartData[i + 1].elapsed_time)
    ELSE None

\* ['dataMin', 'dataMax']
FullExtent == [kind |-> "full", lo |-> 0, hi |-> 0]

\* A numeric axis range, in twentieths of a second: duration * 0.05 is one
\* twentieth of the duration.
AxisRange(lo, hi) == [kind |-> "range", lo |-> lo, hi |-> hi]

\* xAxisDomain without Math.max(0, ...).
UnclampedDomain(domain, chartData) ==
    IF ~IsSome(domain) \/ Len(chartData) = 0 THEN FullExtent
    ELSE LET startSeconds == ElapsedAt(chartData, Val(domain).startIndex)
             endSeconds == ElapsedAt(chartData, Val(domain).endIndex)
         IN  IF IsSome(startSeconds) /\ IsSome(endSeconds)
                  /\ Val(endSeconds) > Val(startSeconds)
             THEN LET duration == Val(endSeconds) - Val(startSeconds)
                  IN  AxisRange(20 * Val(startSeconds) - duration,
                                20 * Val(endSeconds) + duration)
             ELSE FullExtent

\* HeartRateChart: xAxisDomain.  The stored windows always carry a
\* startIndex, so activeDomain.startIndex == null only holds without window.
XAxisDomain(domain, chartData) ==
    IF ~IsSome(domain) \/ Len(chartData) = 0 THEN FullExtent
    ELSE LET startSeconds == ElapsedAt(chartData, Val(domain).startIndex)
             endSeconds == ElapsedAt(chartData, Val(domain).endIndex)
         IN  IF IsSome(startSeconds) /\ IsSome(endSeconds)
                  /\ Val(endSeconds) > Val(startSeconds)
             THEN LET duration == Val(endSeconds) - Val(startSeconds)
                      padding == duration
                      paddedStart == Max({0, 20 * Val(startSeconds) - padding})
                      paddedEnd == 20 * Val(endSeconds) + padding
                  IN  AxisRange(paddedStart, paddedEnd)
             ELSE FullExtent

(***************************************************************************)
(* Segmentation.                                                           *)
(***************************************************************************)
\* type === 'count'
CountSegments(totalPoints, value) ==
    LET segmentSize == totalPoints \div value
        all == [j \in 1..value |->
                  Domain((j - 1) * segmentSize,
                         IF j - 1 = value - 1 THEN totalPoints - 1
                         ELSE j * segmentSize - 1)]
    IN  SelectSeq(all, LAMBDA g : g.startIndex < totalPoints)

\* type === 'time': the while loop from currentStartTime on.
\* Pass j of the loop starts at currentStartTime + j * timeInSeconds; the
\* loop makes pass j when every pass before it was made, the start lies
\* before totalDuration and a sample at or after the start exists.
TimeSegmentsFrom(chartData, timeInSeconds, currentStartTime) ==
    LET totalPoints == Len(chartData)
        totalDuration == chartData[totalPoints].elapsed_time
        StartTime(j) == currentStartTime + j * timeInSeconds
        StartIndex(j) ==
            FindIndex(chartData, LAMBDA d : d.elapsed_time >= StartTime(j))
        EndIndex(j) ==
            LET found == FindIndex(chartData,
                                   LAMBDA d : d.elapsed_time > StartTime(j + 1))
                end0 == IF found = -1 THEN totalPoints - 1 ELSE found - 1
            IN  IF end0 < StartIndex(j) THEN StartIndex(j) ELSE end0
        passes == {j \in 0..totalDuration :
                      \A i \in 0..j : StartTime(i) < totalDuration /\ StartIndex(i) # -1}
    IN  [j \in 1..Cardinality(passes) |-> Domain(StartIndex(j - 1), EndIndex(j - 1))]

TimeSegments(chartData, value) == TimeSegmentsFrom(chartData, value, 0)

\* type === 'points': hrPoints.slice(i, i + pointsPerSegment) for i = 0, p, 2p, ...
PointSegmentsFrom(hrPoints, pointsPerSegment, i) ==
    LET passes == {j \in 0..Len(hrPoints) : i + j * pointsPerSegment < Len(hrPoints)}
        First(j) == i + (j - 1) * pointsPerSegment
    IN  [j \in 1..Cardinality(passes) |->
            Domain(hrPoints[First(j) + 1],
                   hrPoints[Min({First(j) + pointsPerSegment, Len(hrPoints)})])]

PointSegments(data, value) == PointSegmentsFrom(HrPoints(data), value, 0)

\* The `segments` handleApplySplit builds for a config it accepts.
SplitSegmentsOf(data, type, value) ==
    IF type = "count" THEN CountSegments(Len(data), value)
    ELSE IF type = "time" THEN TimeSegments(ChartData(data), value)
    ELSE PointSegments(data, value)

\* isSplitActive of ChartControls
IsSplitActive == Len(splitSegments) > 0 /\ IsSome(currentSegmentIndex)

\* handleApplySplitClick and handleApplySplit: the alert they raise on a
\* loaded sequence, None when they raise none.
ApplySplitAlert(data, type, value) ==
    IF ~IsSome(value) \/ Val(value) <= 0
    THEN Some("Please enter a valid positive number.")
    ELSE IF type = "points" /\ Len(HrPoints(data)) = 0
    THEN Some("No heart rate data found to create splits.")
    ELSE None

\* ChartControls handleApplySplitClick with Number(splitValue) = value (None
\* for NaN), then handleApplySplit({type, value}).  The split form is shown
\* while no split is active.
HandleApplySplitClick(type, value) ==
    /\ page \in {"detail", "chart"}
    /\ Ready /\ NoOverlay /\ ~IsSplitActive
    /\ IF ~IsSome(value) \/ Val(value) <= 0 \/ ~HasTimeseries
       THEN UNCHANGED windowVars
       ELSE LET segments == SplitSegmentsOf(interactiveData, type, Val(value))
            IN  IF Len(segments) > 0
                THEN ProgrammaticDomainChange(Some(segments[1]), TRUE, segments, Some(0))
                ELSE UNCHANGED windowVars
    /\ UNCHANGED <<exportVars, page, session, phase>>
    /\ UNCHANGED editVars

NavigateKeepsWindow(direction) ==
    /\ page \in {"detail", "chart"}
    /\ Ready /\ NoOverlay
    /\ IF ~IsSome(currentSegmentIndex) \/ Len(splitSegments) = 0
       THEN UNCHANGED windowVars
       ELSE LET newIndex == Val(currentSegmentIndex) + direction
            IN  IF newIndex >= 0 /\ newIndex < Len(splitSegments)
                THEN /\ currentSegmentIndex' = Some(newIndex)
                     /\ UNCHANGED <<activeDomain, splitSegments>>
                ELSE UNCHANGED windowVars
    /\ UNCHANGED <<exportVars, page, session, phase>>
    /\ UNCHANGED editVars

\* navigateSegment(direction)
NavigateSegment(direction) ==
    /\ page \in {"detail", "chart"}
    /\ Ready /\ NoOverlay
    /\ IF ~IsSome(currentSegmentIndex) \/ Len(splitSegments) = 0
       THEN UNCHANGED windowVars
       ELSE LET newIndex == Val(currentSegmentIndex) + direction
            IN  IF newIndex >= 0 /\ newIndex < Len(splitSegments)
                THEN ProgrammaticDomainChange(Some(splitSegments[newIndex + 1]), TRUE,
                                              splitSegments, Some(newIndex))
                ELSE UNCHANGED windowVars
    /\ UNCHANGED <<exportVars, page, session, phase>>
    /\ UNCHANGED editVars

SplitTypes == {"count", "time", "points"}

\* Number(splitValue) for the texts tried: NaN, 0 and 1..MaxSplitValue.
SplitValues == {None} \cup {Some(v) : v \in 0..MaxSplitValue}

\* What the Brush can emit on n samples: start <= end, both in range.
BrushDomains(n) ==
    UNION {{Some(Domain(a, b)) : b \in a..n - 1} : a \in 0..n - 1}

\* The seconds a TimeInput can hold: 0..totalDuration.
TimeInputs(data) ==
    IF Len(data) = 0 THEN {0}
    ELSE 0..(data[Len(data)].timestamp - data[1].timestamp)

\* The texts tried in a time field of the legacy page: not a number, SS,
\* MM:SS, HH:MM:SS and four parts.
TimeTexts ==
    {<<None>>, <<Some(0)>>, <<Some(1)>>, <<Some(0), Some(1)>>,
     <<Some(0), Some(0), Some(2)>>, <<Some(0), Some(0), Some(0), Some(0)>>}

(***************************************************************************)
(* Export.  A JavaScript object is the sequence of its <<key, value>>      *)
(* pairs in insertion order.  A cell value is null, a number or a string;  *)
(* a string is the sequence of its pieces, where the pieces ",", "\"" and  *)
(* "\n" are the comma, the double quote and the line break and every       *)
(* other piece is a run of characters holding none of the three.           *)
(***************************************************************************)
Null == [kind |-> "null", n |-> 0, chars |-> <<>>]
Num(n) == [kind |-> "number", n |-> n, chars |-> <<>>]
Str(chars) == [kind |-> "string", n |-> 0, chars |-> chars]

Comma == ","
Quote == "\""
LineBreak == "\n"

\* Object.keys(row)
Keys(row) == [k \in 1..Len(row) |-> row[k][1]]

HasKey(row, key) == \E k \in 1..Len(row) : row[k][1] = key

\* row[header]; undefined reads as null under ??
Get(row, header) ==
    IF HasKey(row, header)
    THEN row[CHOOSE k \in 1..Len(row) : row[k][1] = header][2]
    ELSE Null

\* { ...row, [key]: value } and row[key] = value: an existing key keeps its place
Put(row, key, value) ==
    IF HasKey(row, key)
    THEN [k \in 1..Len(row) |-> IF row[k][1] = key THEN <<key, value>> ELSE row[k]]
    ELSE Append(row, <<key, value>>)

\* String(value) of a value that is not null
StringOf(value) ==
    IF value.kind = "number" THEN <<ToString(value.n)>> ELSE value.chars

\* stringValue.includes(piece)
Includes(chars, piece) == \E k \in 1..Len(chars) : chars[k] = piece

\* stringValue.replace(/"/g, '""')
RECURSIVE DoubleQuotes(_)
DoubleQuotes(chars) ==
    IF chars = <<>> THEN <<>>
    ELSE (IF Head(chars) = Quote THEN <<Quote, Quote>> ELSE <<Head(chars)>>)
         \o DoubleQuotes(Tail(chars))

\* array.join(separator) of strings
RECURSIVE Join(_, _)
Join(strings, separator) ==
    IF strings = <<>> THEN <<>>
    ELSE IF Len(strings) = 1 THEN strings[1]
    ELSE strings[1] \o <<separator>> \o Join(Tail(strings), separator)

\* convertToCSV: one cell
CsvCell(row, header) ==
    LET value == Get(row, header)
        stringValue == IF value.kind = "null" THEN <<>> ELSE StringOf(value)
    IN  IF Includes(stringValue, Comma)
        THEN <<Quote>> \o DoubleQuotes(stringValue) \o <<Quote>>
        ELSE stringValue

\* convertToCSV(data, headers)
ConvertToCSV(data, headers) ==
    LET headerRow == Join([k \in 1..Len(headers) |-> <<headers[k]>>], Comma)
        bodyRows == [r \in 1..Len(data) |->
                        Join([k \in 1..Len(headers) |-> CsvCell(data[r], headers[k])],
                             Comma)]
    IN  Join(<<headerRow>> \o bodyRows, LineBreak)

\* set.add(key) for every key, on a Set kept in insertion order
RECURSIVE AddAll(_, _)
AddAll(set, keys) ==
    IF keys = <<>> THEN set
    ELSE AddAll(IF \E k \in 1..Len(set) : set[k] = Head(keys)
                THEN set ELSE Append(set, Head(keys)),
                Tail(keys))

\* rows.forEach(row => Object.keys(row).forEach(key => set.add(key)))
RECURSIVE AddAllKeys(_, _)
AddAllKeys(set, rows) ==
    IF rows = <<>> THEN set
    ELSE AddAllKeys(AddAll(set, Keys(Head(rows))), Tail(rows))

\* detail page: Array.from(allHeaders)
DetailHeaders(data) == AddAllKeys(<<"timestamp", "anomaly">>, data)

\* volunteer page: the Set that processAndDownload starts from
VolunteerPinned ==
    <<"session_id", "run_date", "timestamp", "anomaly", "heart_rate", "speed",
      "distance">>

\* The timestamp strings of the model and the day each of them names.
IsoDay == [t \in {"2024-01-01T10:00:00Z", "2024-01-01T10:00:01Z",
                  "2024-01-02T09:00:00Z"} |->
             IF t = "2024-01-02T09:00:00Z" THEN "2024-01-02" ELSE "2024-01-01"]

\* new Date(value).toISOString().split('T')[0]; None when toISOString throws
\* RangeError on an invalid date.  A small number is a time of 1970-01-01.
DateString(value) ==
    IF value.kind = "number" THEN Some("1970-01-01")
    ELSE IF value.kind = "string" /\ Len(value.chars) = 1
            /\ value.chars[1] \in DOMAIN IsoDay
    THEN Some(IsoDay[value.chars[1]])
    ELSE None

\* `${safeFirstName}_${safeLastName}_${dateString}_session_${id}.csv`: the
\* name parts that vary within one page
Filename(dateString, id) == [date |-> dateString, id |-> id]

\* The row of the working copy as the object the page holds: the keys the
\* normalizer copies, then originalIndex, then anomaly.
SampleOf(rec) ==
    <<<<"timestamp", Num(rec.timestamp)>>,
      <<"heart_rate", IF IsSome(rec.heart_rate) THEN Num(Val(rec.heart_rate)) ELSE Null>>,
      <<"originalIndex", IF IsSome(rec.originalIndex) THEN Num(Val(rec.originalIndex))
                         ELSE Null>>,
      <<"anomaly", Num(rec.anomaly)>>>>

\* detail page: convertToCSV(interactiveData, orderedHeaders)
DetailCsv(data) == ConvertToCSV(data, DetailHeaders(data))

DetailSessionId == 1

\* detail page: handleExport.  It awaits nothing, so isExporting is false
\* again when it returns.
HandleExport ==
    /\ page = "detail"
    /\ Ready /\ NoOverlay /\ ~isExporting
    /\ Len(downloads) < MaxDownloads
    /\ IF ~HasTimeseries
       THEN /\ exportAlert' = Some("No data available to export.")
            /\ UNCHANGED downloads
       ELSE LET data == [k \in 1..Len(interactiveData) |-> SampleOf(interactiveData[k])]
                dateString == DateString(Get(data[1], "timestamp"))
            IN  IF ~IsSome(dateString)
                THEN /\ exportAlert' = Some("An error occurred during export.")
                     /\ UNCHANGED downloads
                ELSE /\ exportAlert' = None
                     /\ downloads' =
                          Append(downloads,
                                 [filename |-> Filename(Val(dateString), DetailSessionId),
                                  csv |-> DetailCsv(data)])
    /\ UNCHANGED <<page, session, phase, isExporting, samples, selectedSessions, fetches>>
    /\ UNCHANGED editVars
    /\ UNCHANGED windowVars

\* volunteer page: a fetched session
FetchedSession(id, sessionDate, timeseries) ==
    [id |-> id, session_date |-> sessionDate, timeseries_data |-> timeseries]

\* session.timeseries_data && session.timeseries_data.length > 0
HasRows(s) == IsSome(s.timeseries_data) /\ Len(Val(s.timeseries_data)) > 0

\* processAndDownload: { session_id, run_date, ...row }
FlatRow(s, row) ==
    LET base == <<<<"session_id", Num(s.id)>>,
                  <<"run_date", Str(<<Val(DateString(s.session_date))>>)>>>>
        Spread[k \in 0..Len(row)] ==
            IF k = 0 THEN base ELSE Put(Spread[k - 1], row[k][1], row[k][2])
    IN  Spread[Len(row)]

\* processAndDownload: csvData
RECURSIVE CsvData(_)
CsvData(sessions) ==
    IF sessions = <<>> THEN <<>>
    ELSE (IF HasRows(Head(sessions))
          THEN [r \in 1..Len(Val(Head(sessions).timeseries_data)) |->
                   FlatRow(Head(sessions), Val(Head(sessions).timeseries_data)[r])]
          ELSE <<>>)
         \o CsvData(Tail(sessions))

\* processAndDownload: toISOString throws on the session date of a session
\* that has rows
ProcessThrows(sessions) ==
    \E k \in 1..Len(sessions) :
        HasRows(sessions[k]) /\ ~IsSome(DateString(sessions[k].session_date))

\* volunteer page: Array.from(headerSet)
VolunteerHeaders(csvData) == AddAllKeys(VolunteerPinned, csvData)

\* processAndDownload(sessions, filename): the files it hands to downloadCSV,
\* the alert it raises, and whether it throws
ProcessAndDownload(sessions, filename) ==
    IF ProcessThrows(sessions)
    THEN [files |-> <<>>, alert |-> None, threw |-> TRUE]
    ELSE LET csvData == CsvData(sessions)
         IN  IF Len(csvData) = 0
             THEN [files |-> <<>>, threw |-> FALSE,
                   alert |-> Some("No time-series data found in selected session(s) to export.")]
             ELSE [files |-> <<[filename |-> filename,
                                csv |-> ConvertToCSV(csvData, VolunteerHeaders(csvData))]>>,
                   alert |-> None, threw |-> FALSE]

\* handleExportSelected: the date the file name of a fetched session is made
\* from; None when toISOString throws
RunDateString(s) ==
    DateString(IF HasRows(s) THEN Get(Val(s.timeseries_data)[1], "timestamp")
               ELSE s.session_date)

\* handleExportSelected: successfulFetches.forEach(...).  An exception leaves
\* the loop; the files handed over before it stay delivered.
RECURSIVE ExportEach(_, _)
ExportEach(sessions, done) ==
    IF sessions = <<>> THEN done
    ELSE LET s == Head(sessions)
             dateString == RunDateString(s)
         IN  IF ~IsSome(dateString)
             THEN [done EXCEPT !.threw = TRUE, !.alert = Some("An error occurred during export")]
             ELSE LET r == ProcessAndDownload(<<s>>, Filename(Val(dateString), s.id))
                  IN  IF r.threw
                      THEN [done EXCEPT !.threw = TRUE,
                                        !.alert = Some("An error occurred during export")]
                      ELSE ExportEach(Tail(sessions),
                                      [files |-> done.files \o r.files,
                                       alert |-> IF IsSome(r.alert) THEN r.alert
                                                 ELSE done.alert,
                                       threw |-> FALSE])

\* results.filter(fulfilled).map(value)
SuccessfulFetches(results) ==
    LET fulfilled == SelectSeq(results, LAMBDA f : f.status = "fulfilled")
    IN  [k \in 1..Len(fulfilled) |-> Val(fulfilled[k].value)]

FailedFetches(results) == SelectSeq(results, LAMBDA f : f.status = "rejected")

\* handleExportSelected after await Promise.allSettled(promises)
ExportSelectedResult(results) ==
    LET successfulFetches == SuccessfulFetches(results)
        failedAlert == IF Len(FailedFetches(results)) > 0
                       THEN Some("sessions could not be fetched.") ELSE None
    IN  IF Len(successfulFetches) = 0
        THEN [files |-> <<>>, alert |-> Some("No session data could be exported."),
              threw |-> FALSE]
        ELSE ExportEach(successfulFetches,
                        [files |-> <<>>, alert |-> failedAlert, threw |-> FALSE])

\* volunteer page: handleSelectSession
HandleSelectSession(sessionId) ==
    /\ page = "volunteer"
    /\ selectedSessions' =
         IF \E k \in 1..Len(selectedSessions) : selectedSessions[k] = sessionId
         THEN SelectSeq(selectedSessions, LAMBDA id : id # sessionId)
         ELSE Append(selectedSessions, sessionId)
    /\ UNCHANGED <<page, session, phase, isExporting, downloads, exportAlert, samples,
                   fetches>>
    /\ UNCHANGED editVars
    /\ UNCHANGED windowVars

\* volunteer page: handleExportSelected up to await Promise.allSettled
HandleExportSelected ==
    /\ page = "volunteer"
    /\ Len(selectedSessions) > 0 /\ ~isExporting
    /\ Len(downloads) < MaxDownloads
    /\ isExporting' = TRUE
    /\ fetches' = [k \in 1..Len(selectedSessions) |->
                     [id |-> selectedSessions[k], status |-> "pending", value |-> None]]
    /\ UNCHANGED <<page, session, phase, downloads, exportAlert, samples,
                   selectedSessions>>
    /\ UNCHANGED editVars
    /\ UNCHANGED windowVars

\* one fetch(...).then(res => ...) of the export settles
FetchSettles(k, ok, fetched) ==
    /\ page = "volunteer"
    /\ k \in 1..Len(fetches)
    /\ fetches[k].status = "pending"
    /\ fetched.id = fetches[k].id
    /\ fetches' = [fetches EXCEPT ![k] =
                     IF ok THEN [id |-> fetches[k].id, status |-> "fulfilled",
                                 value |-> Some(fetched)]
                     ELSE [id |-> fetches[k].id, status |-> "rejected", value |-> None]]
    /\ UNCHANGED <<page, session, phase, isExporting, downloads, exportAlert, samples,
                   selectedSessions>>
    /\ UNCHANGED editVars
    /\ UNCHANGED windowVars

\* volunteer page: handleExportSelected from the settling of allSettled to
\* the end of its finally block
ExportSelectedSettles ==
    /\ page = "volunteer"
    /\ isExporting
    /\ Len(fetches) > 0
    /\ \A k \in 1..Len(fetches) : fetches[k].status # "pending"
    /\ LET r == ExportSelectedResult(fetches)
       IN  /\ downloads' = downloads \o r.files
           /\ exportAlert' = r.alert
    /\ isExporting' = FALSE
    /\ fetches' = <<>>
    /\ UNCHANGED <<page, session, phase, samples, selectedSessions>>
    /\ UNCHANGED editVars
    /\ UNCHANGED windowVars

\* The rows in `samples` as the one fetched session of a volunteer export.
SampleSession == FetchedSession(1, Str(<<"2024-01-01T10:00:00Z">>), Some(samples))

\* The serializer of either page applied to the rows in `samples`: lines
\* 1085-1090 of handleExport, or processAndDownload on one fetched session.
SerializeSamples ==
    /\ page \in {"detail", "volunteer"}
    /\ Len(samples) > 0
    /\ downloads = <<>>
    /\ downloads' =
         IF page = "detail"
         THEN <<[filename |-> Filename("2024-01-01", DetailSessionId),
                 csv |-> DetailCsv(samples)]>>
         ELSE ProcessAndDownload(<<SampleSession>>, Filename("2024-01-01", 1)).files
    /\ UNCHANGED <<page, session, phase, isExporting, exportAlert, samples,
                   selectedSessions, fetches>>
    /\ UNCHANGED editVars
    /\ UNCHANGED windowVars

EditNext ==
    \/ \E i \in ClickIndexes(Len(interactiveData)) : HandleChartClick(Some(i))
    \/ HandleChartClick(None)
    \/ \E i \in ClickIndexes(Len(interactiveData)) : HandleRowClick(i)
    \/ InitiateSaveChanges
    \/ CancelSaveModal
    \/ ConfirmSaveChanges
    \/ HandleSaveChanges
    \/ \E outcome \in SaveOutcomes : SaveSettles(outcome)
    \/ SaveStatusTimeout
    \/ HandleOpenResetModal
    \/ \E t \in ConfirmTexts : TypeConfirmText(t)
    \/ CancelResetModal
    \/ HandleConfirmReset

WindowNext ==
    \/ \E d \in BrushDomains(Len(interactiveData)) \cup {None} : HandleBrushChange(d)
    \/ \E a \in TimeInputs(interactiveData), b \in TimeInputs(interactiveData) :
          HandleApplyTime(a, b)
    \/ \E startTime \in TimeTexts, endTime \in TimeTexts :
          HandleApplyTimeText(startTime, endTime)
    \/ \E g \in ManualSegments(interactiveData) : HandleTimelineZoom(g)
    \/ HandleClearSplit

SplitNext ==
    \/ \E type \in SplitTypes, v \in SplitValues : HandleApplySplitClick(type, v)
    \/ \E direction \in {-1, 1} : NavigateSegment(direction)

(***************************************************************************)
(* Spec: the three pages with every handler, on the short sessions.        *)
(***************************************************************************)
PageSessions ==
    {MissingSession}
    \cup {SessionOf(RowsOf([k \in 1..n |-> 1],
                           [k \in 1..n |-> k < n \/ hrLast],
                           [k \in 1..n |-> IF k = 1 THEN first ELSE 0])) :
            n \in 0..MaxLen, hrLast \in BOOLEAN, first \in {0, 1}}

Init == InitPage(Pages, PageSessions)

Next == LoadEffect \/ EditNext \/ WindowNext \/ SplitNext

Spec == Init /\ [][Next]_vars

(***************************************************************************)
(* SpecEdit: the editing and saving handlers of the three pages, on the    *)
(* short sessions and on the scenario session.                             *)
(***************************************************************************)
InitEdit == InitPage(Pages, EditSessions)

NextEdit == LoadEffect \/ EditNext

SpecEdit == InitEdit /\ [][NextEdit]_vars

(***************************************************************************)
(* SpecSeg: the segmentation handlers of detail and chart over sequences   *)
(* of varied sampling and heart-rate presence.                             *)
(***************************************************************************)
\* 100 samples one second apart, heart rate null at indexes 40..59.
GapSession ==
    SessionOf(RowsOf([k \in 1..100 |-> 1],
                     [k \in 1..100 |-> k - 1 < 40 \/ k - 1 > 59],
                     [k \in 1..100 |-> 0]))

SegSessions ==
    UNION {{SessionOf(RowsOf(gaps, [k \in 1..n |-> TRUE], [k \in 1..n |-> 0])) :
               gaps \in SeqsOver(0..MaxGap, n - 1)} : n \in 1..MaxSegLen}
    \cup UNION {{SessionOf(RowsOf([k \in 1..n |-> 1], hrs, [k \in 1..n |-> 0])) :
                    hrs \in SeqsOver(BOOLEAN, n)} : n \in 1..MaxSegLen}
    \cup {GapSession}

InitSeg == InitPage({"detail", "chart"}, SegSessions)

NextSeg ==
    \/ LoadEffect
    \/ \E type \in SplitTypes, v \in SplitValues \cup {Some(20)} :
          HandleApplySplitClick(type, v)
    \/ \E direction \in {-1, 1} : NavigateSegment(direction)
    \/ HandleClearSplit

SpecSeg == InitSeg /\ [][NextSeg]_vars

(***************************************************************************)
(* SpecView: the view-window and segmentation handlers of the three pages  *)
(* on sequences one second apart whose first label may be 1.               *)
(***************************************************************************)
ViewSessions ==
    {MissingSession}
    \cup {SessionOf(RowsOf([k \in 1..n |-> 1],
                           [k \in 1..n |-> k < n \/ hrLast],
                           [k \in 1..n |-> IF k = 1 THEN first ELSE 0])) :
            n \in 0..MaxSegLen, hrLast \in BOOLEAN, first \in {0, 1}}

InitView == InitPage(Pages, ViewSessions)

NextView == LoadEffect \/ WindowNext \/ SplitNext

SpecView == InitView /\ [][NextView]_vars

(***************************************************************************)
(* SpecNorm: the editing handlers on sessions whose rows spell the label   *)
(* key in either case or lack it, with labels other than 0 and 1.          *)
(***************************************************************************)
LabelKeys == {"anomaly", "Anomaly", ""}

\* Raw label values: -1..MaxRawLabel.
RawLabels == (0 - 1)..MaxRawLabel

NormRows ==
    {<<RawRowKeyed(0, Some(61), key, IF key = "" THEN 0 ELSE a)>> :
        key \in LabelKeys, a \in RawLabels}

NormSessions == {SessionOf(rows) : rows \in NormRows}

InitNorm ==
    /\ InitPage(Pages, NormSessions)
    /\ page = "legacy" => \A k \in 1..Len(Val(session.timeseries_data)) :
                             Val(session.timeseries_data)[k].anomaly_key # ""

SpecNorm == InitNorm /\ [][NextEdit]_vars

(***************************************************************************)
(* SpecExport: the three pages with every handler, the export of the       *)
(* detail page included, on the session without samples, the empty session *)
(* and the one-sample sessions.                                            *)
(***************************************************************************)
TinySessions ==
    {MissingSession, SessionOf(<<>>)}
    \cup {SessionOf(RowsOf(<<1>>, <<hr>>, <<a>>)) : hr \in BOOLEAN, a \in {0, 1}}

InitExport == InitPage(Pages, TinySessions)

NextExport == LoadEffect \/ EditNext \/ WindowNext \/ SplitNext \/ HandleExport

SpecExport == InitExport /\ [][NextExport]_vars

(***************************************************************************)
(* SpecIndex: every handler of the three pages on sessions of two samples  *)
(* one second apart.                                                       *)
(***************************************************************************)
IndexSessions ==
    {SessionOf(RowsOf(<<1>>, <<TRUE, TRUE>>, <<first, 0>>)) : first \in {0, 1}}

InitIndex == InitPage(Pages, IndexSessions)

SpecIndex == InitIndex /\ [][Next]_vars

(***************************************************************************)
(* SpecSave: the editing and saving handlers of the three pages on the     *)
(* sessions of at most one sample, with the save collaborator answering    *)
(* every request: the promise of fetch settles.                            *)
(***************************************************************************)
SaveAnswered == \E outcome \in SaveOutcomes : SaveSettles(outcome)

SpecSave == InitExport /\ [][NextEdit]_vars /\ WF_vars(SaveAnswered)

(***************************************************************************)
(* SpecCsv: the serializers of the detail and the volunteer page applied   *)
(* to tables whose cells hold commas, quotes and line breaks and to tables *)
(* whose rows differ in their keys.                                        *)
(***************************************************************************)
\* the pieces a cell is made of
Pieces == {"a", Comma, Quote, LineBreak}

\* the strings of at most MaxCells pieces
CellStrings == UNION {SeqsOver(Pieces, n) : n \in 0..MaxCells}

\* rows with a timestamp and, possibly, a free-text cell
TextRows ==
    {<<<<"timestamp", Str(<<"2024-01-01T10:00:00Z">>)>>>>}
    \cup {<<<<"timestamp", Str(<<"2024-01-01T10:00:00Z">>)>>, <<"note", v>>>> :
            v \in {Null} \cup {Str(c) : c \in CellStrings}}

\* the column names of a recording, in the two orders the rows spell them
ColumnOrders == {<<"timestamp", "heart_rate", "speed", "anomaly">>,
                 <<"anomaly", "speed", "heart_rate", "timestamp">>}

\* rows holding any of the columns
ColumnRows ==
    {SelectSeq([k \in 1..Len(order) |-> <<order[k], Num(k)>>],
               LAMBDA cell : cell[1] \in present) :
        order \in ColumnOrders, present \in SUBSET {"timestamp", "heart_rate", "speed",
                                                   "anomaly"}}

\* a row whose cells need no escaping
PlainRow == <<<<"timestamp", Str(<<"2024-01-01T10:00:01Z">>)>>, <<"note", Str(<<"a">>)>>>>

\* a free-text row alone, before and after a plain row
TextTables ==
    UNION {{<<row>>, <<row, PlainRow>>, <<PlainRow, row>>} : row \in TextRows}

CsvSamples ==
    TextTables \cup UNION {SeqsOver(ColumnRows, n) : n \in 1..MaxCells}

\* detail page: the rows as normalizedTimeseriesData hands them to the working
\* copy, with originalIndex and the coerced label
NormalizedSamples(rows) ==
    [r \in 1..Len(rows) |->
        Put(Put(rows[r], "originalIndex", Num(r - 1)), "anomaly",
            Num(NormalizeAnomaly(IF Get(rows[r], "anomaly").kind = "number"
                                 THEN Some(Get(rows[r], "anomaly").n) ELSE None)))]

\* The detail page exports its working copy, and only when the first row has
\* a timestamp that reads as a date; the volunteer page exports the fetched
\* rows as they are.
InitCsv ==
    /\ page \in {"detail", "volunteer"}
    /\ session = MissingSession
    /\ samples \in IF page = "detail"
                   THEN {NormalizedSamples(rows) :
                           rows \in {t \in CsvSamples : HasKey(t[1], "timestamp")}}
                   ELSE CsvSamples
    /\ InitState

SpecCsv == InitCsv /\ [][SerializeSamples]_vars

(***************************************************************************)
(* SpecVolunteer: selection and multi-session export of the volunteer      *)
(* page.                                                                   *)
(***************************************************************************)
\* the rows a fetched session may hold: its first timestamp on either day,
\* or spelled Timestamp as the uploaded files spell it
FetchedRows(id) ==
    {<<<<key, Str(<<t>>)>>, <<"heart_rate", Num(60 + id)>>>> :
        key \in {"timestamp", "Timestamp"},
        t \in {"2024-01-01T10:00:00Z", "2024-01-02T09:00:00Z"}}

\* what GET /api/sessions/{id}/ may answer
FetchedSessions(id) ==
    {FetchedSession(id, Str(<<"2024-01-01T10:00:00Z">>), ts) :
        ts \in {None, Some(<<>>)} \cup {Some(<<row>>) : row \in FetchedRows(id)}}

SessionIds == 1..MaxSessions

InitVolunteer ==
    /\ page = "volunteer"
    /\ session = MissingSession
    /\ samples = <<>>
    /\ InitState

NextVolunteer ==
    \/ \E id \in SessionIds : HandleSelectSession(id)
    \/ HandleExportSelected
    \/ \E k \in 1..MaxSessions, ok \in BOOLEAN :
          \E fetched \in UNION {FetchedSessions(id) : id \in SessionIds} :
              FetchSettles(k, ok, fetched)
    \/ ExportSelectedSettles

SpecVolunteer == InitVolunteer /\ [][NextVolunteer]_vars

(***************************************************************************)
(* Properties of the edit state.                                           *)
(***************************************************************************)
\* The 0-based indexes at which two label arrays differ.
Dirty(cur, orig) ==
    {i \in 0..Len(cur) - 1 : cur[i + 1].anomaly # orig[i + 1].anomaly}

\* The pending diff of the current state.
Diff == ComputeDiff(interactiveData, originalData)

\* The working copy as the page loaded it.
LoadedData == DeepCopy(NormalizedTimeseriesData(page, session))

\* C1: when the save request fails (non-OK response or transport error) the
\* baseline and every sample of the working copy stay as they were and the
\* diff still reports the same pending edits; with working label 0 and
\* baseline label 1 at the scenario index the diff holds that index with
\* from 1, to 0 after the failure.
FailedSaveKeepsEdits ==
    [][\A outcome \in {"rejected", "transport"} :
          SaveSettles(outcome) =>
            /\ originalData' = originalData
            /\ interactiveData' = interactiveData
            /\ ComputeDiff(interactiveData', originalData') = Diff
            /\ Dirty(interactiveData', originalData') = Dirty(interactiveData, originalData)
            /\ (/\ Len(interactiveData) > ScenarioIndex
                /\ interactiveData[ScenarioIndex + 1].anomaly = 0
                /\ originalData[ScenarioIndex + 1].anomaly = 1)
               => /\ interactiveData'[ScenarioIndex + 1].anomaly = 0
                  /\ originalData'[ScenarioIndex + 1].anomaly = 1
                  /\ \E j \in 1..Len(ComputeDiff(interactiveData', originalData')) :
                        ComputeDiff(interactiveData', originalData')[j] =
                          [timestamp |-> interactiveData[ScenarioIndex + 1].timestamp,
                           from |-> 1, to |-> 0]]_vars

\* The scenario of C1 after its failing save: the label at the scenario index
\* was saved as 1, toggled back to 0, and the save of that edit has failed.
FailedSaveScenario ==
    /\ Len(interactiveData) = ScenarioIndex + 1
    /\ ~IsSome(request)
    /\ saveStatus.state = "error" /\ saveStatus # NoChangesStatus
    /\ interactiveData[ScenarioIndex + 1].anomaly = 0
    /\ originalData[ScenarioIndex + 1].anomaly = 1
    /\ Diff = <<[timestamp |-> interactiveData[ScenarioIndex + 1].timestamp,
                 from |-> 1, to |-> 0]>>

\* C2: when a save request succeeds the new baseline equals the working copy
\* as it was when the request was issued, and the diff afterwards reports
\* exactly the samples whose label now differs from that snapshot, so every
\* toggle made during the flight and not undone is still reported.
SaveCommitsSnapshotSent ==
    [][SaveSettles("ok") =>
         /\ originalData' = Val(request).closureData
         /\ Dirty(interactiveData', originalData')
              = Dirty(interactiveData, Val(request).closureData)]_vars

ToggleTwiceCancels ==
    (Ready /\ NoOverlay) =>
      \A i \in 0..Len(interactiveData) - 1 :
        LET once == ToggleResult(page, interactiveData, originalData, aliased, i)
            twice == ToggleResult(page, once.interactiveData, once.originalData,
                                  aliased, i)
        IN  /\ once.interactiveData[i + 1].anomaly # interactiveData[i + 1].anomaly
            /\ twice.interactiveData[i + 1].anomaly = interactiveData[i + 1].anomaly
            /\ twice.interactiveData = interactiveData
            /\ ComputeDiff(twice.interactiveData, twice.originalData) = Diff

\* The j-th smallest dirty index.
NthDirty(cur, orig, j) ==
    CHOOSE i \in Dirty(cur, orig) :
        Cardinality({x \in Dirty(cur, orig) : x < i}) = j - 1

\* diff lists the dirty indexes of (cur, orig) in ascending order, each with
\* its timestamp, baseline label and working label.
IsDirtyList(diff, cur, orig) ==
    /\ Len(diff) = Cardinality(Dirty(cur, orig))
    /\ \A j \in 1..Len(diff) :
          LET i == NthDirty(cur, orig, j)
          IN  diff[j] = [timestamp |-> cur[i + 1].timestamp,
                         from |-> orig[i + 1].anomaly,
                         to |-> cur[i + 1].anomaly]

\* C5: the diff is the ascending list of {timestamp, from, to} of exactly the
\* dirty indexes; the summary shown for confirmation is that list, and the
\* payload of an issued request is the diff of the moment it was issued
\* mapped to {timestamp, anomaly: to}.
DiffListsDirtyIndexes ==
    /\ IsDirtyList(Diff, interactiveData, originalData)
    /\ isModalOpen => changeSummary = Diff
    /\ IsSome(request) =>
         LET sent == ComputeDiff(Val(request).closureData, originalData)
         IN  /\ IsDirtyList(sent, Val(request).closureData, originalData)
             /\ Val(request).updates =
                  [j \in 1..Len(sent) |->
                     [timestamp |-> sent[j].timestamp, anomaly |-> sent[j].to]]

\* A request carrying two edits, one turning a label on and one turning a
\* label off, is in flight.
TwoEditsInFlight ==
    /\ IsSome(request)
    /\ Len(Val(request).updates) = 2
    /\ Val(request).updates[1].anomaly # Val(request).updates[2].anomaly

\* C6: once loaded, the baseline changes only in the success branch of a
\* save; and on a freshly loaded session toggling an in-range index changes
\* the working label, leaves the baseline label and makes the index dirty.
BaselineOnlyReplacedBySave ==
    [][/\ (Ready /\ ~SaveSettles("ok")) => originalData' = originalData
       /\ \A i \in 0..Len(interactiveData) - 1 :
            (/\ HandleChartClick(Some(i))
             /\ IsSome(interactiveData[i + 1].heart_rate)
             /\ ~hasUnsavedChanges
             /\ interactiveData = LoadedData)
            => /\ interactiveData'[i + 1].anomaly # interactiveData[i + 1].anomaly
               /\ originalData'[i + 1].anomaly = originalData[i + 1].anomaly
               /\ i \in Dirty(interactiveData', originalData')]_vars

(***************************************************************************)
(* Properties of the segmentation and of the view window.                  *)
(***************************************************************************)
\* segs is ordered, contiguous and covers 0..n-1 exactly once.
IsPartition(segs, n) ==
    /\ Len(segs) >= 1
    /\ segs[1].startIndex = 0
    /\ segs[Len(segs)].endIndex = n - 1
    /\ \A j \in 1..Len(segs) : segs[j].startIndex <= segs[j].endIndex
    /\ \A j \in 1..Len(segs) - 1 : segs[j + 1].startIndex = segs[j].endIndex + 1

\* The indexes of S inside a segment.
Within(seg, S) == {i \in S : seg.startIndex <= i /\ i <= seg.endIndex}

\* C7: for every length >= 1 and every k >= 1 the segments a count split
\* stores are ordered, contiguous, non-overlapping and cover [0, length-1]
\* exactly once, the last ending at length-1.
CountSplitPartitions ==
    [][\A k \in 1..MaxSplitValue :
          (HandleApplySplitClick("count", Some(k)) /\ HasTimeseries)
            => IsPartition(splitSegments', Len(interactiveData))]_vars

\* C8: for every duration d > 0 the segments a duration split stores are
\* pairwise non-overlapping and segment j holds only samples whose elapsed
\* time lies in [j*d, (j+1)*d).
TimeSplitHalfOpen ==
    [][\A d \in 1..MaxSplitValue :
          (HandleApplySplitClick("time", Some(d)) /\ HasTimeseries)
            => LET segs == splitSegments'
                   all == 0..Len(interactiveData) - 1
                   elapsed(i) == ChartData(interactiveData)[i + 1].elapsed_time
               IN  /\ \A j \in 1..Len(segs) : \A i \in Within(segs[j], all) :
                         (j - 1) * d <= elapsed(i) /\ elapsed(i) < j * d
                   /\ \A j1, j2 \in 1..Len(segs) :
                         j1 # j2 => Within(segs[j1], all) \cap Within(segs[j2], all) = {}]_vars

\* The heart-rate-eligible indexes.
Eligible(data) == {i \in 0..Len(data) - 1 : IsSome(data[i + 1].heart_rate)}

\* segs chunks the eligible indexes E into consecutive groups of p.
IsChunking(segs, E, p) ==
    /\ Len(segs) >= 1
    /\ \A j \in 1..Len(segs) :
          /\ segs[j].startIndex \in E
          /\ segs[j].endIndex \in E
          /\ Cardinality(Within(segs[j], E)) >= 1
          /\ Cardinality(Within(segs[j], E)) <= p
          /\ j < Len(segs) => Cardinality(Within(segs[j], E)) = p
    /\ \A j \in 1..Len(segs) - 1 : segs[j].endIndex < segs[j + 1].startIndex
    /\ \A e \in E : Cardinality({j \in 1..Len(segs) : e \in Within(segs[j], E)}) = 1

\* C9: a point-count split with p >= 1 stores segments that start and end on
\* eligible indexes, hold exactly p eligible indexes each except possibly the
\* last (1..p), and place every eligible index in exactly one segment; on the
\* 100 samples with heart rate null at 40..59 and p = 20 there are 4 segments
\* of 20 eligible indexes and none contains an index of 40..59.
PointSplitChunksEligible ==
    [][\A p \in (1..MaxSplitValue) \cup {20} :
          (/\ HandleApplySplitClick("points", Some(p))
           /\ Eligible(interactiveData) # {})
            => /\ IsChunking(splitSegments', Eligible(interactiveData), p)
               /\ (session = GapSession /\ p = 20)
                    => /\ Len(splitSegments') = 4
                       /\ \A j \in 1..4 :
                             /\ Cardinality(Within(splitSegments'[j],
                                                   Eligible(interactiveData))) = 20
                             /\ Within(splitSegments'[j], 40..59) = {}]_vars

\* The 100-sample session split by 20 points: the third segment starts after
\* the samples without heart rate.
GapSessionSplit ==
    /\ session = GapSession
    /\ Len(splitSegments) = 4
    /\ splitSegments[2] = Domain(20, 39)
    /\ splitSegments[3] = Domain(60, 79)
    /\ activeDomain = Some(Domain(0, 19))

\* C10: in every state with a loaded sequence of n >= 1 samples the stored
\* window is absent or satisfies 0 <= startIndex <= endIndex <= n-1.
WindowAlwaysValid ==
    (Ready /\ IsSome(activeDomain) /\ Len(interactiveData) >= 1) =>
      /\ 0 <= Val(activeDomain).startIndex
      /\ Val(activeDomain).startIndex <= Val(activeDomain).endIndex
      /\ Val(activeDomain).endIndex <= Len(interactiveData) - 1

\* C11: every navigation step that changes anything moves currentSegmentIndex
\* by exactly +1 or -1 inside 0..segmentCount-1, sets the view window to that
\* segment and keeps the segment list, so next() at the last and previous()
\* at the first segment change nothing; in every state the index of an active
\* segmentation is in 0..segmentCount-1 and the index is null exactly when
\* the segment list is empty.
NavigationStaysInSegments ==
    /\ [](/\ currentSegmentIndex = None <=> splitSegments = <<>>
          /\ IsSome(currentSegmentIndex) =>
               /\ 0 <= Val(currentSegmentIndex)
               /\ Val(currentSegmentIndex) <= Len(splitSegments) - 1)
    /\ [][\A direction \in {-1, 1} :
            NavigateSegment(direction) =>
              /\ IsSome(currentSegmentIndex)
              /\ Val(currentSegmentIndex) + direction >= 0
              /\ Val(currentSegmentIndex) + direction <= Len(splitSegments) - 1
              /\ currentSegmentIndex' = Some(Val(currentSegmentIndex) + direction)
              /\ splitSegments' = splitSegments
              /\ activeDomain' = Some(splitSegments[Val(currentSegmentIndex) + direction + 1])
              /\ interactiveData' = interactiveData
              /\ originalData' = originalData]_vars

\* next() has moved an active segmentation of three or more segments to its
\* second segment, which is the view window.
OnSecondSegment ==
    /\ Len(splitSegments) >= 3
    /\ currentSegmentIndex = Some(1)
    /\ activeDomain = Some(splitSegments[2])
    /\ activeDomain # Some(splitSegments[1])

Cleared(before, after) ==
    {i \in 0..Len(before) - 1 :
        before[i + 1].anomaly = 1 /\ after[i + 1].anomaly = 0}

\* C13: resetAll runs only with the reset dialog open and its text reading
\* RESET; it sets every working label to 0, keeps every other field and the
\* baseline; and no step of any other handler clears two or more labels at
\* once.
ResetNeedsTypedConfirmation ==
    [][/\ HandleConfirmReset =>
            /\ isResetModalOpen
            /\ ToUpperCase(confirmText) = "RESET"
            /\ Len(interactiveData') = Len(interactiveData)
            /\ \A k \in 1..Len(interactiveData) :
                  interactiveData'[k] = [interactiveData[k] EXCEPT !.anomaly = 0]
            /\ originalData' = originalData
       /\ (/\ Len(interactiveData') = Len(interactiveData)
           /\ Cardinality(Cleared(interactiveData, interactiveData')) >= 2)
            => /\ isResetModalOpen
               /\ ToUpperCase(confirmText) = "RESET"
               /\ page = "detail"]_vars

\* Two labels that the baseline holds as 1 are 0 in the working copy, the
\* reset dialog has been closed and its text reads RESET.
BulkClearedState ==
    /\ page = "detail"
    /\ ~isResetModalOpen
    /\ confirmText = "reset"
    /\ hasUnsavedChanges
    /\ Cardinality(Cleared(originalData, interactiveData)) >= 2
    /\ \A k \in 1..Len(interactiveData) : interactiveData[k].anomaly = 0

\* C14: a raw label equal to 1 is loaded as 1 whatever the casing of its key
\* and a missing or other value as 0, and in every reachable state every
\* sample of the working copy and of the baseline has anomaly in {0, 1}.
LabelsAlwaysBinary ==
    /\ Ready =>
         LET rows == Val(session.timeseries_data)
         IN  \A k \in 1..Len(rows) :
                interactiveData[k].anomaly \in {0, 1}
                /\ LoadedData[k].anomaly =
                     IF rows[k].anomaly_key # "" /\ rows[k].anomaly = 1 THEN 1 ELSE 0
    /\ \A k \in 1..Len(interactiveData) : interactiveData[k].anomaly \in {0, 1}
    /\ \A k \in 1..Len(originalData) : originalData[k].anomaly \in {0, 1}

\* C15: toggling an in-range index flips that sample's label between 0 and
\* 1 and leaves its other fields, every other sample, the length and order
\* of the working copy, the baseline, the view window and the segmentation
\* unchanged; toggling an out-of-range index changes neither working copy nor
\* baseline.
ToggleChangesOneLabel ==
    [][\A i \in ClickIndexes(Len(interactiveData)) :
          HandleAnomalyToggle(Some(i)) =>
            IF i < Len(interactiveData)
            THEN /\ interactiveData[i + 1].anomaly \in {0, 1}
                 /\ interactiveData' =
                      [interactiveData EXCEPT
                          ![i + 1].anomaly = 1 - interactiveData[i + 1].anomaly]
                 /\ originalData' = originalData
                 /\ UNCHANGED windowVars
            ELSE /\ interactiveData' = interactiveData
                 /\ originalData' = originalData]_vars

\* C16: a save requested while the diff is empty issues no request, leaves
\* working copy and baseline unchanged, opens no confirmation dialog, and the
\* status shown afterwards is not an error status.
EmptySaveIsNotAnError ==
    [][(Diff = <<>> /\ (InitiateSaveChanges \/ HandleSaveChanges)) =>
          /\ request' = request
          /\ isSaving' = isSaving
          /\ isModalOpen' = isModalOpen
          /\ interactiveData' = interactiveData
          /\ originalData' = originalData
          /\ saveStatus'.state # "error"]_vars

(***************************************************************************)
(* Properties of the export.                                               *)
(***************************************************************************)
\* The standard parse of delimited text: fields end at a comma, records at a
\* line break; a field that opens with a quote runs to its closing quote and
\* holds commas and line breaks as they are and a doubled quote as one quote.
RECURSIVE ParseFrom(_, _, _, _, _, _)
ParseFrom(text, inQuotes, wasQuoted, field, record, records) ==
    IF text = <<>>
    THEN Append(records, Append(record, field))
    ELSE LET c == Head(text)
             rest == Tail(text)
         IN  IF inQuotes
             THEN IF c = Quote
                  THEN IF rest # <<>> /\ Head(rest) = Quote
                       THEN ParseFrom(Tail(rest), TRUE, TRUE, Append(field, Quote),
                                      record, records)
                       ELSE ParseFrom(rest, FALSE, TRUE, field, record, records)
                  ELSE ParseFrom(rest, TRUE, TRUE, Append(field, c), record, records)
             ELSE IF c = Comma
                  THEN ParseFrom(rest, FALSE, FALSE, <<>>, Append(record, field), records)
             ELSE IF c = LineBreak
                  THEN ParseFrom(rest, FALSE, FALSE, <<>>, <<>>,
                                 Append(records, Append(record, field)))
             ELSE IF c = Quote /\ field = <<>> /\ ~wasQuoted
                  THEN ParseFrom(rest, TRUE, TRUE, field, record, records)
             ELSE ParseFrom(rest, FALSE, wasQuoted, Append(field, c), record, records)

ParseCsv(text) == ParseFrom(text, FALSE, FALSE, <<>>, <<>>, <<>>)

\* The rows in memory that the file of SerializeSamples was made from.
SerializedRows == IF page = "detail" THEN samples ELSE CsvData(<<SampleSession>>)

\* The table `records` reads back as the rows `data`: a header record, one
\* record per row, and under every header the string of the row's value,
\* empty for null and absent.
ReadsBackAs(records, data) ==
    /\ Len(records) = Len(data) + 1
    /\ \A r \in 1..Len(data) :
          /\ Len(records[r + 1]) = Len(records[1])
          /\ \A k \in 1..Len(Keys(data[r])) :
                \E j \in 1..Len(records[1]) : records[1][j] = <<Keys(data[r])[k]>>
          /\ \A j \in 1..Len(records[1]) :
                /\ Len(records[1][j]) = 1
                /\ LET value == Get(data[r], records[1][j][1])
                   IN  records[r + 1][j] =
                          IF value.kind = "null" THEN <<>> ELSE StringOf(value)

\* C17: parsing a delivered file as delimited text gives back, row by row,
\* the header/value pairs of the rows it was made from, with null and absent
\* values read back as the empty string.
ExportParsesBack ==
    \A k \in 1..Len(downloads) :
        page \in {"detail", "volunteer"} /\ Len(samples) > 0 =>
            ReadsBackAs(ParseCsv(downloads[k].csv), SerializedRows)

\* The keys of the rows in first-seen order.
FirstSeen(data) == AddAllKeys(<<>>, data)

\* The union of the keys of the rows: timestamp and anomaly first when a row
\* has them, the rest in first-seen order.
UnionHeaders(data) ==
    SelectSeq(<<"timestamp", "anomaly">>,
              LAMBDA h : \E r \in 1..Len(data) : HasKey(data[r], h))
    \o SelectSeq(FirstSeen(data), LAMBDA h : h \notin {"timestamp", "anomaly"})

\* The header row of a file: its pieces up to the first line break, without
\* the commas.
HeaderRow(csv) ==
    LET first == IF Includes(csv, LineBreak)
                 THEN CHOOSE k \in 1..Len(csv) :
                         csv[k] = LineBreak /\ \A j \in 1..k - 1 : csv[j] # LineBreak
                 ELSE Len(csv) + 1
    IN  SelectSeq(SubSeq(csv, 1, first - 1), LAMBDA piece : piece # Comma)

\* C18: on the detail page and on the volunteer page the header row of a
\* delivered file is the union of the field names of the exported rows, with
\* timestamp and anomaly first when present and the rest in first-seen order.
HeaderIsUnionOfFields ==
    \A k \in 1..Len(downloads) :
        page \in {"detail", "volunteer"} /\ Len(samples) > 0 =>
            HeaderRow(downloads[k].csv) = UnionHeaders(SerializedRows)

\* The day of the first sample of a fetched session, however its rows spell
\* the timestamp key.
FirstSampleDay(s) ==
    LET row == Val(s.timeseries_data)[1]
        k == CHOOSE j \in 1..Len(row) : row[j][1] \in {"timestamp", "Timestamp"}
    IN  IsoDay[row[k][2].chars[1]]

\* The fetched sessions that have samples, in the order of the selection.
FetchedWithRows(results) == SelectSeq(SuccessfulFetches(results), HasRows)

\* C19: when all fetches of a multi-session export have settled, every
\* fetched session that has samples gets exactly one file, named from the
\* day of its own first sample and its id and holding one record per sample
\* of that session and of no other; sessions whose fetch failed do not take
\* the files of the others away; and the exporting flag is false again.
OneFilePerFetchedSession ==
    [][ExportSelectedSettles =>
          LET good == FetchedWithRows(fetches)
          IN  /\ ~isExporting'
              /\ Len(downloads') = Len(downloads) + Len(good)
              /\ \A k \in 1..Len(good) :
                    LET file == downloads'[Len(downloads) + k]
                        records == ParseCsv(file.csv)
                        rows == Val(good[k].timeseries_data)
                    IN  /\ file.filename = Filename(FirstSampleDay(good[k]), good[k].id)
                        /\ Len(records) = Len(rows) + 1
                        /\ \A r \in 1..Len(rows) :
                              records[r + 1][1] = <<ToString(good[k].id)>>]_vars

\* The session has no samples: timeseries_data is missing or empty.
NoSamples == ~IsSome(session.timeseries_data) \/ Len(Val(session.timeseries_data)) = 0

\* C20: for a session without samples the load effect can run, and in every
\* state that follows, whatever is clicked, working copy and baseline are
\* empty, the view window is absent, the diff is empty, no segmentation
\* exists and no file has been delivered.
EmptySessionDegrades ==
    NoSamples =>
        /\ phase = "mounted" => ENABLED LoadEffect
        /\ interactiveData = <<>>
        /\ originalData = <<>>
        /\ activeDomain = None
        /\ Diff = <<>>
        /\ splitSegments = <<>>
        /\ currentSegmentIndex = None
        /\ downloads = <<>>

\* An export was requested on a loaded session without samples and refused.
ExportRefusedOnEmpty ==
    /\ NoSamples
    /\ Ready
    /\ exportAlert = Some("No data available to export.")

(***************************************************************************)
(* Properties of the save in flight.                                       *)
(***************************************************************************)
\* The request in flight ended in this step as a commit: success is
\* reported, the unsaved flag is cleared and the baseline is a copy of the
\* working data the save closure reads.
EndsCommitted ==
    /\ saveStatus'.state = "success"
    /\ hasUnsavedChanges' = FALSE
    /\ originalData' = DeepCopy(ClosureInteractiveData)

\* The request in flight ended in this step as a surfaced failure.
EndsFailed ==
    /\ saveStatus'.state = "error"
    /\ originalData' = originalData

\* C21: a request in flight is never dropped or replaced; the step that ends
\* it is either a commit or a surfaced failure, never both, and leaves the
\* saving flag false; and when the collaborator answers, every request ends
\* and the saving flag is false again.
IssuedSaveEnds ==
    /\ [][IsSome(request) =>
            \/ request' = request
            \/ /\ request' = None
               /\ ~isSaving'
               /\ EndsCommitted # EndsFailed]_vars
    /\ [](IsSome(request) => isSaving)
    /\ (IsSome(request) ~> (~IsSome(request) /\ ~isSaving))

\* A save has failed and its failure is on display with the saving flag
\* false and the edits still pending.
FailureOnDisplay ==
    /\ request = None
    /\ ~isSaving
    /\ saveStatus.state = "error"
    /\ saveStatus.message # NoChangesStatus.message
    /\ Diff # <<>>

\* C22: every segment a split of any of the three policies stores is a view
\* window of the loaded sequence: 0 <= startIndex <= endIndex <= length-1.
SegmentsAreViewWindows ==
    \A j \in 1..Len(splitSegments) :
       /\ 0 <= splitSegments[j].startIndex
       /\ splitSegments[j].startIndex <= splitSegments[j].endIndex
       /\ splitSegments[j].endIndex <= Len(interactiveData) - 1

\* The timestamps of an array of records, in order.
Timestamps(data) == [k \in 1..Len(data) |-> data[k].timestamp]

\* C23: once loaded, the working copy and the baseline have the length and
\* the order of the input sequence, and the record at position i carries
\* index i, after any sequence of toggles, resets, saves (successful or
\* failed), window and segmentation operations.
IndexIsPosition ==
    Ready =>
      /\ IsSome(session.timeseries_data)
      /\ Timestamps(interactiveData) = Timestamps(Val(session.timeseries_data))
      /\ Timestamps(originalData) = Timestamps(interactiveData)
      /\ \A k \in 1..Len(interactiveData) :
            /\ OriginalIndexes(page, interactiveData)[k] = Some(k - 1)
            /\ OriginalIndexes(page, originalData)[k] = Some(k - 1)

\* A bulk clear was committed by a save while a segmentation was active.
ResetSavedWhileSplit ==
    /\ Ready
    /\ interactiveData # LoadedData
    /\ interactiveData = ResetData(LoadedData)
    /\ originalData = interactiveData
    /\ saveStatus.state = "success"
    /\ Len(splitSegments) >= 2
    /\ currentSegmentIndex = Some(1)

(***************************************************************************)
(* Properties of the axis range.                                           *)
(***************************************************************************)
\* The axis range of the chart in the current state.
CurrentAxis == XAxisDomain(activeDomain, ChartData(interactiveData))

\* Elapsed seconds of the sample at index i of the working copy.
Elapsed(i) == interactiveData[i + 1].timestamp - interactiveData[1].timestamp

\* C24 as stated: for every window with start # end the range is
\* [elapsed(start) - pad, elapsed(end) + pad] with pad a twentieth of the
\* span, and the full-extent sentinel is returned exactly when the window is
\* absent or start = end.
AxisRangeIsPadded ==
    Ready =>
      IF IsSome(activeDomain) /\ Val(activeDomain).startIndex # Val(activeDomain).endIndex
      THEN LET a == Val(activeDomain).startIndex
               b == Val(activeDomain).endIndex
           IN  /\ CurrentAxis.kind = "range"
               /\ CurrentAxis.lo = 20 * Elapsed(a) - (Elapsed(b) - Elapsed(a))
               /\ CurrentAxis.hi = 20 * Elapsed(b) + (Elapsed(b) - Elapsed(a))
      ELSE CurrentAxis = FullExtent

\* C24 amended: the lower end is clamped at 0, and the sentinel is returned
\* exactly when the window is absent, an end lies outside the samples, or
\* the sample at end is not later than the sample at start.
AxisRangeClampedAtZero ==
    Ready =>
      LET n == Len(interactiveData)
          a == Val(activeDomain).startIndex
          b == Val(activeDomain).endIndex
      IN  IF /\ IsSome(activeDomain)
             /\ 0 <= a /\ a < n /\ 0 <= b /\ b < n
             /\ Elapsed(b) > Elapsed(a)
          THEN /\ CurrentAxis.kind = "range"
               /\ CurrentAxis.lo =
                    Max({0, 20 * Elapsed(a) - (Elapsed(b) - Elapsed(a))})
               /\ CurrentAxis.hi = 20 * Elapsed(b) + (Elapsed(b) - Elapsed(a))
          ELSE CurrentAxis = FullExtent

\* A window from index 0 to a later sample: the padded start would be
\* negative and the range starts at 0.
WindowFromFirstSample ==
    /\ IsSome(activeDomain)
    /\ Val(activeDomain).startIndex = 0
    /\ Val(activeDomain).endIndex > 0
    /\ CurrentAxis.kind = "range"
    /\ CurrentAxis.lo = 0
    /\ CurrentAxis.hi > 20 * Elapsed(Val(activeDomain).endIndex)

(***************************************************************************)
(* Properties of the time range and split requests.                        *)
(***************************************************************************)
\* The pairs of seconds an Apply click can carry in the current state:
\* what the TimeInputs hold on detail and chart, what the two texts parse to
\* on legacy.
TimeRequests ==
    IF page = "legacy"
    THEN {<<ParseTimeToSeconds(a), ParseTimeToSeconds(b)>> : a \in TimeTexts, b \in TimeTexts}
    ELSE {<<Some(a), Some(b)>> : a \in TimeInputs(interactiveData),
                                 b \in TimeInputs(interactiveData)}

\* The first index whose elapsed time is at least t, -1 without one.
FirstAtLeast(t) ==
    LET hits == {i \in 0..Len(interactiveData) - 1 :
                    interactiveData[i + 1].timestamp - interactiveData[1].timestamp >= t}
    IN  IF hits = {} THEN -1 ELSE Min(hits)

\* C25: a time-range request whose time does not parse or whose start is not
\* before its end is refused with an alert and moves nothing; every other
\* request, a start beyond the last sample included, moves the window to
\* {first index at or after start, first index at or after end or the last
\* index} with startIndex <= endIndex, or is refused with an alert as well:
\* no request is dropped silently.
TimeRangeAppliedOrRefused ==
    (Ready /\ HasTimeseries) =>
      \A r \in TimeRequests :
         LET alert == ApplyTimeAlert(page, r[1], r[2])
             window == ApplyTimeWindow(page, interactiveData, r[1], r[2])
         IN  IF ~IsSome(r[1]) \/ ~IsSome(r[2]) \/ Val(r[1]) >= Val(r[2])
             THEN IsSome(alert) /\ ~IsSome(window)
             ELSE \/ IsSome(alert) /\ ~IsSome(window)
                  \/ /\ ~IsSome(alert)
                     /\ IsSome(window)
                     /\ Val(window).startIndex = FirstAtLeast(Val(r[1]))
                     /\ Val(window).startIndex >= 0
                     /\ Val(window).endIndex =
                          (IF FirstAtLeast(Val(r[2])) = -1 THEN Len(interactiveData) - 1
                           ELSE FirstAtLeast(Val(r[2])))
                     /\ Val(window).startIndex <= Val(window).endIndex

\* Whether a split request yields no segmentation on the loaded sequence.
YieldsNoSegments(type, value) ==
    \/ ~IsSome(value)
    \/ Val(value) <= 0
    \/ Len(SplitSegmentsOf(interactiveData, type, Val(value))) = 0

\* C26: a split request that yields no segmentation (parameter not a
\* positive number, point split without a sample carrying a heart rate, any
\* split of zero segments such as a duration split of a sequence of total
\* duration 0) leaves the segment list, the index and the window as they
\* were and raises an alert.
RejectedSplitIsTold ==
    /\ [][\A type \in SplitTypes, v \in SplitValues :
             (HandleApplySplitClick(type, v) /\ HasTimeseries /\ YieldsNoSegments(type, v))
               => UNCHANGED windowVars]_vars
    /\ []((Ready /\ HasTimeseries /\ page \in {"detail", "chart"}) =>
            \A type \in SplitTypes, v \in SplitValues :
               YieldsNoSegments(type, v) =>
                 IsSome(ApplySplitAlert(interactiveData, type, v)))

(***************************************************************************)
(* Properties of the unsaved-changes flag and the save in flight.          *)
(***************************************************************************)
\* C27: in every reachable state a non-empty diff implies that the
\* unsaved-changes flag is set, also right after a save succeeded while
\* toggles were made during its flight.
DiffImpliesUnsavedFlag == (Diff # <<>>) => hasUnsavedChanges

\* C28: the saving flag is true exactly while a save request is in flight,
\* and while it is true no handler that issues a save request or belongs to
\* the bulk clear can run: no second request is issued and no reset is
\* started, while a toggle of a sample can still be made.
OneSaveInFlight ==
    /\ isSaving <=> IsSome(request)
    /\ isSaving =>
         /\ ~ENABLED InitiateSaveChanges
         /\ ~ENABLED ConfirmSaveChanges
         /\ ~ENABLED HandleSaveChanges
         /\ ~ENABLED HandleOpenResetModal
         /\ ~ENABLED HandleConfirmReset
         /\ ENABLED HandleAnomalyToggle(Some(0))

\* A sample was toggled while the save was in flight, and the working copy
\* still holds a label 1 that the bulk clear would clear.
ToggledDuringSave ==
    /\ page = "detail"
    /\ isSaving
    /\ IsSome(request)
    /\ interactiveData # Val(request).closureData
    /\ HasAnomalies

(***************************************************************************)
(* Properties tying the window to the segmentation.                        *)
(***************************************************************************)
\* C29: whenever currentSegmentIndex is not null the view window is the
\* segment it points at; a brush drag, a time range or a timeline zoom that
\* moves the window elsewhere has cleared the segmentation.
WindowIsCurrentSegment ==
    IsSome(currentSegmentIndex) =>
      /\ Val(currentSegmentIndex) < Len(splitSegments)
      /\ activeDomain = Some(splitSegments[Val(currentSegmentIndex) + 1])

(***************************************************************************)
(* Properties of the reset dialog.                                         *)
(***************************************************************************)
\* C30: the reset dialog opens with a text that does not confirm, so that
\* every run of the bulk clear, which needs the text to read RESET, follows
\* a typing of the text during the same opening; a text typed in an earlier
\* opening, confirmed or cancelled, is not carried over.
ConfirmationTypedEachOpening ==
    [][/\ (~isResetModalOpen /\ isResetModalOpen') => ~IsConfirmed'
       /\ HandleConfirmReset => (isResetModalOpen /\ IsConfirmed)]_vars
====
